---- MODULE Spec2Model ----
(***************************************************************************)
(* CM True Cost Calculator (streamlit_app.py).                             *)
(*                                                                         *)
(* The calculation engine (percent_to_decimal, validate_rows,              *)
(* compute_costs, required_fee_from_overhead_profit, coverage) and the     *)
(* script body that wires them to the widgets.                             *)
(*                                                                         *)
(* Numbers: a Python float is modelled as an exact rational n/d in lowest  *)
(* terms (d > 0), plus the float NaN.  IEEE-754 rounding is not modelled:  *)
(* every arithmetic result below is the exact real value.  None, a text    *)
(* value and a propagating exception are further kinds of value.           *)
(***************************************************************************)
EXTENDS Integers, Sequences, FiniteSets, TLC

(***************************************************************************)
(* Values                                                                  *)
(***************************************************************************)
RECURSIVE GCD(_, _)
GCD(a, b) == IF b = 0 THEN a ELSE GCD(b, a % b)

Abs(a) == IF a < 0 THEN -a ELSE a

\* The float n/d, in lowest terms with a positive denominator.
Num(n, d) ==
    LET g == GCD(Abs(n), Abs(d))
        s == IF d < 0 THEN -1 ELSE 1
    IN [k |-> "num", n |-> s * (n \div g), d |-> s * (d \div g)]

Whole(n) == [k |-> "num", n |-> n, d |-> 1]
NaN == [k |-> "nan", n |-> 0, d |-> 1]
None == [k |-> "none", n |-> 0, d |-> 1]
Raise == [k |-> "raise", n |-> 0, d |-> 1]
Str(s) == [k |-> "str", s |-> s]

IsNum(v) == v.k = "num"

\* Float arithmetic: NaN is contagious, an exception propagates.
\* An operand that is no float (None, text) raises TypeError.
FBin(a, b, r) ==
    IF {a.k, b.k} \subseteq {"num", "nan"}
    THEN (IF a.k = "nan" \/ b.k = "nan" THEN NaN ELSE r)
    ELSE Raise

FAdd(a, b) == FBin(a, b, Num(a.n * b.d + b.n * a.d, a.d * b.d))
FSub(a, b) == FBin(a, b, Num(a.n * b.d - b.n * a.d, a.d * b.d))
FMul(a, b) == FBin(a, b, Num(a.n * b.n, a.d * b.d))
\* Python float division: ZeroDivisionError on a zero divisor.
FDiv(a, b) == FBin(a, b, IF b.n = 0 THEN Raise ELSE Num(a.n * b.d, a.d * b.n))

\* Comparisons: every comparison with NaN is False.
FGt(a, b) == IsNum(a) /\ IsNum(b) /\ a.n * b.d > b.n * a.d
FLe(a, b) == IsNum(a) /\ IsNum(b) /\ a.n * b.d <= b.n * a.d
FGe(a, b) == FLe(b, a)
FLt(a, b) == FGt(b, a)

(***************************************************************************)
(* float(x): text is parsed as an optionally signed decimal literal with   *)
(* surrounding blanks stripped; None raises TypeError, unparsable text     *)
(* raises ValueError.                                                      *)
(***************************************************************************)
DigitChars == <<"0", "1", "2", "3", "4", "5", "6", "7", "8", "9">>
Digits == {DigitChars[i] : i \in 1..10}
DigitVal(c) == (CHOOSE i \in 1..10 : DigitChars[i] = c) - 1

RECURSIVE LStrip(_)
LStrip(s) == IF s # <<>> /\ Head(s) = " " THEN LStrip(Tail(s)) ELSE s

RECURSIVE RStrip(_)
RStrip(s) ==
    IF s # <<>> /\ s[Len(s)] = " " THEN RStrip(SubSeq(s, 1, Len(s) - 1)) ELSE s

Strip(s) == RStrip(LStrip(s))

RECURSIVE AllDigits(_)
AllDigits(s) == s = <<>> \/ (Head(s) \in Digits /\ AllDigits(Tail(s)))

RECURSIVE DigitsValue(_)
DigitsValue(s) ==
    IF s = <<>> THEN 0 ELSE 10 * DigitsValue(SubSeq(s, 1, Len(s) - 1)) + DigitVal(s[Len(s)])

RECURSIVE Pow10(_)
Pow10(e) == IF e = 0 THEN 1 ELSE 10 * Pow10(e - 1)

\* Positions of "." in s.
Dots(s) == {i \in 1..Len(s) : s[i] = "."}

\* An unsigned decimal literal: digits, at most one ".", at least one digit.
ParseUnsigned(s) ==
    IF Dots(s) = {} THEN
        IF s # <<>> /\ AllDigits(s) THEN Whole(DigitsValue(s)) ELSE Raise
    ELSE IF Cardinality(Dots(s)) > 1 THEN Raise
    ELSE
        LET p == CHOOSE i \in Dots(s) : TRUE
            ip == SubSeq(s, 1, p - 1)
            fp == SubSeq(s, p + 1, Len(s))
        IN IF Len(s) > 1 /\ AllDigits(ip) /\ AllDigits(fp)
           THEN Num(DigitsValue(ip) * Pow10(Len(fp)) + DigitsValue(fp), Pow10(Len(fp)))
           ELSE Raise

ParseFloat(s) ==
    LET t == Strip(s)
    IN IF t = <<>> THEN Raise
       ELSE IF Head(t) = "-" THEN
           LET u == ParseUnsigned(Tail(t)) IN IF IsNum(u) THEN Num(-u.n, u.d) ELSE Raise
       ELSE IF Head(t) = "+" THEN ParseUnsigned(Tail(t))
       ELSE ParseUnsigned(t)

Float(x) ==
    CASE x.k = "num" -> x
      [] x.k = "nan" -> x
      [] x.k = "str" -> ParseFloat(x.s)
      [] OTHER -> Raise

(***************************************************************************)
(* percent_to_decimal                                                      *)
(***************************************************************************)
\* Faulty variant: no try/except around float(x), the exception propagates.
percent_to_decimal_unguarded(x) ==
    LET v == Float(x)
    IN IF FGt(v, Whole(1)) THEN FDiv(v, Whole(100)) ELSE v

\* Faulty variant: the threshold test is v >= 1.0.
percent_to_decimal_ge(x) ==
    LET v == Float(x)
    IN IF v.k = "raise" THEN Whole(0)
       ELSE IF FGe(v, Whole(1)) THEN FDiv(v, Whole(100))
       ELSE v

percent_to_decimal(x) ==
    LET v == Float(x)
    IN IF v.k = "raise" THEN Whole(0)
       ELSE IF FGt(v, Whole(1)) THEN FDiv(v, Whole(100))
       ELSE v

(***************************************************************************)
(* Data frames.  A frame is its ordered rows; a row is its index label and *)
(* its cells, a function from the frame's column names to values.          *)
(***************************************************************************)
PRE == "Pre %"
CON == "Con %"
POST == "Post %"
COMP == "Total compensation"
ROLE == "Role"
NumericCols == <<PRE, CON, POST, COMP>>

\* row.get(col, default)
Get(row, col, default) == IF col \in DOMAIN row.c THEN row.c[col] ELSE default

\* The row with column col set to v: a new column or an overwritten one.
WithCol(row, col, v) ==
    [idx |-> row.idx,
     c |-> [x \in DOMAIN row.c \cup {col} |-> IF x = col THEN v ELSE row.c[x]]]

\* pd.to_numeric(..., errors="coerce"): what does not convert becomes NaN.
ToNumeric(v) ==
    CASE v.k = "num" -> v
      [] v.k = "str" -> (LET f == ParseFloat(v.s) IN IF IsNum(f) THEN f ELSE NaN)
      [] OTHER -> NaN

FillNa(v, fill) == IF v.k = "nan" THEN fill ELSE v

\* Series.sum(): NaN entries are skipped, the empty sum is 0.
RECURSIVE SumCol(_, _)
SumCol(df, col) ==
    IF df = <<>> THEN Whole(0)
    ELSE LET rest == SumCol(Tail(df), col)
             v == Head(df).c[col]
         IN IF v.k = "nan" THEN rest ELSE FAdd(v, rest)

(***************************************************************************)
(* validate_rows                                                           *)
(***************************************************************************)
\* The integer nearest to n/d (d > 0), ties to the even one.
RoundHalfEven(n, d) ==
    LET q == n \div d
        r == n % d
    IN IF 2 * r < d THEN q
       ELSE IF 2 * r > d THEN q + 1
       ELSE IF q % 2 = 0 THEN q ELSE q + 1

RECURSIVE IntText(_)
IntText(n) ==
    IF n < 10 THEN <<DigitChars[n + 1]>>
    ELSE Append(IntText(n \div 10), DigitChars[(n % 10) + 1])

\* f"{v:.1f}" for a number v.
Fmt1(v) ==
    LET t == RoundHalfEven(Abs(v.n) * 10, v.d)
        body == IntText(t \div 10) \o <<".", DigitChars[(t % 10) + 1]>>
    IN IF v.n < 0 /\ t # 0 THEN <<"-">> \o body ELSE body

Tolerance == Num(10001, 10000)
DefaultRole == Str(<<"(", "r", "o", "l", "e", ")">>)

RowTotal(row) ==
    LET pre == percent_to_decimal(Get(row, PRE, Whole(0)))
        con == percent_to_decimal(Get(row, CON, Whole(0)))
        post == percent_to_decimal(Get(row, POST, Whole(0)))
    IN FAdd(FAdd(pre, con), post)

\* The warning text, by its three interpolated parts.
Warning(row, total) ==
    [row |-> row.idx + 1,
     role |-> Get(row, ROLE, DefaultRole),
     pct |-> Fmt1(FMul(total, Whole(100)))]

RECURSIVE validate_rows(_)
validate_rows(df) ==
    IF df = <<>> THEN <<>>
    ELSE LET row == Head(df)
             total == RowTotal(row)
         IN (IF FGt(total, Tolerance) THEN <<Warning(row, total)>> ELSE <<>>)
            \o validate_rows(Tail(df))

(***************************************************************************)
(* compute_costs                                                           *)
(***************************************************************************)
\* Faulty variant: to_numeric without fillna(0.0).
CleanCell_nofill(row, col) == ToNumeric(Get(row, col, Whole(0)))

\* Clean numeric columns: a missing column is 0.0, a value that is not
\* numeric is 0.0.
CleanCell(row, col) == FillNa(ToNumeric(Get(row, col, Whole(0))), Whole(0))

RECURSIVE CleanCols(_, _)
CleanCols(row, cols) ==
    IF cols = <<>> THEN row
    ELSE CleanCols(WithCol(row, Head(cols), CleanCell(row, Head(cols))), Tail(cols))

\* Faulty variant: out = df, the assignments reach the caller's frame.
CallerFrameAliased(df, out) == out

\* out = df.copy(): the assignments to out do not reach the caller's frame.
CallerFrameAfter(df, out) == df

\* Faulty variant: the year fraction clamped to at most 1.
ProjectYearFraction_clamped(row, pre_f, con_f, post_f) ==
    LET f == FAdd(FAdd(FMul(row.c["Pre_dec"], pre_f), FMul(row.c["Con_dec"], con_f)),
                  FMul(row.c["Post_dec"], post_f))
    IN IF FGt(f, Whole(1)) THEN Whole(1) ELSE f

ProjectYearFraction(row, pre_f, con_f, post_f) ==
    FAdd(FAdd(FMul(row.c["Pre_dec"], pre_f), FMul(row.c["Con_dec"], con_f)),
         FMul(row.c["Post_dec"], post_f))

LoadedAnnual(row, burden_pct) == FMul(row.c["Base Annual"], FAdd(Whole(1), burden_pct))

ProjectCost(row) == FMul(row.c["Loaded Annual"], row.c["Project Year Fraction"])

\* The column assignments of compute_costs, as they act on one row.
WithDecimals(row) ==
    WithCol(WithCol(WithCol(row, "Pre_dec", percent_to_decimal(row.c[PRE])),
                    "Con_dec", percent_to_decimal(row.c[CON])),
            "Post_dec", percent_to_decimal(row.c[POST]))

WithBaseAnnual(row) == WithCol(row, "Base Annual", row.c[COMP])

WithLoadedAnnual(row, burden_pct) == WithCol(row, "Loaded Annual", LoadedAnnual(row, burden_pct))

WithProjectYearFraction(row, pre_f, con_f, post_f) ==
    WithCol(row, "Project Year Fraction", ProjectYearFraction(row, pre_f, con_f, post_f))

WithProjectCost(row) == WithCol(row, "Project Cost", ProjectCost(row))

ComputeRow(row, pre_f, con_f, post_f, burden_pct) ==
    WithProjectCost(
        WithProjectYearFraction(
            WithLoadedAnnual(WithBaseAnnual(WithDecimals(CleanCols(row, NumericCols))),
                             burden_pct),
            pre_f, con_f, post_f))

\* return out, total_payroll_cost
CostsOf(df, out) ==
    [out |-> out,
     total_payroll_cost |-> SumCol(out, "Project Cost"),
     df |-> CallerFrameAfter(df, out)]

compute_costs(df, pre_w, con_w, post_w, burden_pct) ==
    CostsOf(df,
            [i \in 1..Len(df) |->
                ComputeRow(df[i], FDiv(pre_w, Whole(52)), FDiv(con_w, Whole(52)),
                           FDiv(post_w, Whole(52)), burden_pct)])

(***************************************************************************)
(* required_fee_from_overhead_profit, coverage                             *)
(***************************************************************************)
\* Faulty variant: the guard is denom < 0.
required_fee_strict(total_payroll_cost, overhead_pct, profit_pct) ==
    LET denom == FSub(FSub(Whole(1), overhead_pct), profit_pct)
    IN IF FLt(denom, Whole(0)) THEN None
       ELSE FDiv(total_payroll_cost, denom)

\* Faulty variant: overhead and profit added as shares of payroll.
required_fee_markup(total_payroll_cost, overhead_pct, profit_pct) ==
    LET denom == FSub(FSub(Whole(1), overhead_pct), profit_pct)
    IN IF FLe(denom, Whole(0)) THEN None
       ELSE FMul(total_payroll_cost, FAdd(FAdd(Whole(1), overhead_pct), profit_pct))

required_fee_from_overhead_profit(total_payroll_cost, overhead_pct, profit_pct) ==
    LET denom == FSub(FSub(Whole(1), overhead_pct), profit_pct)
    IN IF FLe(denom, Whole(0)) THEN None
       ELSE FDiv(total_payroll_cost, denom)

\* Faulty variant: 0.0 where there is no result.
coverage_zero(proposal_fee, denom) ==
    IF FLe(denom, Whole(0)) THEN Whole(0)
    ELSE FMul(FDiv(proposal_fee, denom), Whole(100))

coverage(proposal_fee, denom) ==
    IF FLe(denom, Whole(0)) THEN None
    ELSE FMul(FDiv(proposal_fee, denom), Whole(100))

(***************************************************************************)
(* The script body (lines 213-327): widgets, text parsing, calculations.   *)
(***************************************************************************)
DEFAULT_ROLES ==
    <<Str(<<"CM">>), Str(<<"Project Coordinator">>), Str(<<"Site Manager">>),
      Str(<<"Site Assistant">>), Str(<<"Estimator">>), Str(<<"Safety">>)>>

MkRow(idx, role, pre, con, post, comp) ==
    [idx |-> idx,
     c |-> (ROLE :> role) @@ (PRE :> pre) @@ (CON :> con) @@ (POST :> post) @@ (COMP :> comp)]

\* st.session_state.team_df as first created: the default roles, all zero.
DefaultTeam ==
    [i \in 1..Len(DEFAULT_ROLES) |->
        MkRow(i - 1, DEFAULT_ROLES[i], Whole(0), Whole(0), Whole(0), Whole(0))]

RECURSIVE RemoveSpaces(_)
RemoveSpaces(s) ==
    IF s = <<>> THEN <<>>
    ELSE IF Head(s) = " " THEN RemoveSpaces(Tail(s))
    ELSE <<Head(s)>> \o RemoveSpaces(Tail(s))

\* float(text.replace(" ", "")) if text else 0.0
ParseMoney(text) == IF text = <<>> THEN Whole(0) ELSE ParseFloat(RemoveSpaces(text))

\* bool(x) of a fee: None and 0.0 are false.
Truthy(v) == ~(v.k = "none" \/ (v.k = "num" /\ v.n = 0))

\* Faulty variant: no "if rom_fee" before the call.
RomCoverage_unguarded(fee, rom_fee) == coverage(fee, rom_fee)

RomCoverage(fee, rom_fee) == IF Truthy(rom_fee) THEN coverage(fee, rom_fee) ELSE None

NoRun(status, df) ==
    [status |-> status, team_df |-> df, calc_df |-> <<>>,
     total_payroll_cost |-> None, rom_fee |-> None,
     overhead_dollars |-> None, profit_dollars |-> None, total_fee |-> None,
     low_fee |-> None, mid_fee |-> None, high_fee |-> None,
     pay_cov_low |-> None, pay_cov_mid |-> None, pay_cov_high |-> None,
     rom_cov_low |-> None, rom_cov_mid |-> None, rom_cov_high |-> None]

\* Lines 305-327: the dollar metrics and the six coverage values.
Results(cc, rom_fee, overhead_dollars, profit_dollars, low_fee, mid_fee, high_fee) ==
    [status |-> "ok", team_df |-> cc.df, calc_df |-> cc.out,
     total_payroll_cost |-> cc.total_payroll_cost, rom_fee |-> rom_fee,
     overhead_dollars |-> overhead_dollars, profit_dollars |-> profit_dollars,
     total_fee |-> FAdd(FAdd(cc.total_payroll_cost, overhead_dollars), profit_dollars),
     low_fee |-> low_fee, mid_fee |-> mid_fee, high_fee |-> high_fee,
     pay_cov_low |-> coverage(low_fee, cc.total_payroll_cost),
     pay_cov_mid |-> coverage(mid_fee, cc.total_payroll_cost),
     pay_cov_high |-> coverage(high_fee, cc.total_payroll_cost),
     rom_cov_low |-> RomCoverage(low_fee, rom_fee),
     rom_cov_mid |-> RomCoverage(mid_fee, rom_fee),
     rom_cov_high |-> RomCoverage(high_fee, rom_fee)]

\* Lines 291-292 and 305-306.
Calculations(cc, project_budget, overhead_pct, profit_pct, low_fee, mid_fee, high_fee) ==
    Results(cc,
            required_fee_from_overhead_profit(cc.total_payroll_cost, overhead_pct, profit_pct),
            FMul(project_budget, overhead_pct), FMul(project_budget, profit_pct),
            low_fee, mid_fee, high_fee)

\* Lines 261-286: the inputs as the script reads them.  A text input that
\* float() rejects ends the run with the exception.
Inputs(df, w, project_budget, low_fee, mid_fee, high_fee) ==
    IF "raise" \in {project_budget.k, low_fee.k, mid_fee.k, high_fee.k}
    THEN NoRun("error", df)
    ELSE Calculations(
             compute_costs(df, w.pre_w, w.con_w, w.post_w, FDiv(w.burden, Whole(100))),
             project_budget, FDiv(w.overhead, Whole(100)), FDiv(w.profit, Whole(100)),
             low_fee, mid_fee, high_fee)

\* One run of the script on the widget values w and the edited frame df.
ScriptRun(df, w) ==
    Inputs(df, w, ParseMoney(w.budget_input), ParseMoney(w.low_fee_input),
           ParseMoney(w.mid_fee_input), ParseMoney(w.high_fee_input))

(***************************************************************************)
(* State.                                                                  *)
(*   team_df   the frame st.data_editor returns (the edited roster)        *)
(*   widgets   the values of the number and text inputs                    *)
(*   run       what the last script run computed, "pending" before it      *)
(*   runs      script runs since the last input change                     *)
(*   interactions  input changes so far                                    *)
(*   call, ret, pc   a direct call of one engine function and its result   *)
(***************************************************************************)
VARIABLES team_df, widgets, run, runs, interactions, call, ret, pc

vars == <<team_df, widgets, run, runs, interactions, call, ret, pc>>
session == <<team_df, widgets, run, runs, interactions>>
harness == <<call, ret, pc>>

\* Bounds of the exploration.
MaxInteractions == 2
MaxRuns == 2
MaxRows == 7
MaxStrLen == 3
MaxRosterLen == 2
MaxLabel == 2

Txt(word) == Str(<<word>>)

DefaultWidgets ==
    [pre_w |-> Whole(0), con_w |-> Whole(0), post_w |-> Whole(0),
     burden |-> Whole(15), budget_input |-> <<"0">>,
     overhead |-> Whole(0), profit |-> Whole(0),
     low_fee_input |-> <<"0">>, mid_fee_input |-> <<"0">>, high_fee_input |-> <<"0">>]

\* Values a user sets the widgets to.
WeekInputs == {Whole(0), Whole(26)}
BurdenInputs == {Whole(0), Whole(15)}
OverheadInputs == {Whole(0), Whole(10), Whole(60)}
ProfitInputs == {Whole(0), Whole(5), Whole(45)}
MoneyTexts ==
    {<<"0">>, <<>>, <<"a">>, <<"5", "0", "0", "0", "0">>,
     <<"1", "0", "0", " ", "0", "0", "0">>}
PctCellInputs == {Whole(0), Whole(30), None}
CompCellInputs == {Whole(0), Whole(100000), None}

\* A session some way in: the roster and the inputs of a worked estimate.
WorkedTeam ==
    [DefaultTeam EXCEPT ![1] =
        MkRow(0, DEFAULT_ROLES[1], Whole(30), Whole(30), Whole(30), Whole(100000))]

WorkedWidgets ==
    [pre_w |-> Whole(26), con_w |-> Whole(26), post_w |-> Whole(0),
     burden |-> Whole(15), budget_input |-> <<"1", "0", "0", " ", "0", "0", "0">>,
     overhead |-> Whole(10), profit |-> Whole(5),
     low_fee_input |-> <<"5", "0", "0", "0", "0">>,
     mid_fee_input |-> <<"1", "0", "0", " ", "0", "0", "0">>,
     high_fee_input |-> <<"1", "5", "0", "0", "0", "0">>]

Idle == [fn |-> "none"]

SessionInit ==
    /\ \/ team_df = DefaultTeam /\ widgets = DefaultWidgets
       \/ team_df = WorkedTeam /\ widgets = WorkedWidgets
    /\ run = NoRun("pending", team_df)
    /\ runs = 0
    /\ interactions = 0

Init ==
    /\ SessionInit
    /\ call = Idle /\ ret = None /\ pc = "idle"

(***************************************************************************)
(* The script run, and the input changes that trigger it.                  *)
(***************************************************************************)
RunScript ==
    /\ runs < MaxRuns
    /\ runs' = runs + 1
    /\ run' = ScriptRun(team_df, widgets)
    /\ team_df' = run'.team_df
    /\ UNCHANGED <<widgets, interactions, harness>>

\* An input change: the script is rerun on the new values.
InputChanged(df) ==
    /\ run.status # "pending"
    /\ interactions < MaxInteractions
    /\ interactions' = interactions + 1
    /\ runs' = 0
    /\ run' = NoRun("pending", df)
    /\ UNCHANGED harness

SetWeeks ==
    \E f \in {"pre_w", "con_w", "post_w"}, v \in WeekInputs :
        /\ v # widgets[f]
        /\ widgets' = [widgets EXCEPT ![f] = v]
        /\ team_df' = team_df
        /\ InputChanged(team_df)

SetBurden ==
    \E v \in BurdenInputs \ {widgets.burden} :
        /\ widgets' = [widgets EXCEPT !.burden = v]
        /\ team_df' = team_df
        /\ InputChanged(team_df)

SetOverhead ==
    \E v \in OverheadInputs \ {widgets.overhead} :
        /\ widgets' = [widgets EXCEPT !.overhead = v]
        /\ team_df' = team_df
        /\ InputChanged(team_df)

SetProfit ==
    \E v \in ProfitInputs \ {widgets.profit} :
        /\ widgets' = [widgets EXCEPT !.profit = v]
        /\ team_df' = team_df
        /\ InputChanged(team_df)

SetMoneyText ==
    \E f \in {"budget_input", "low_fee_input", "mid_fee_input", "high_fee_input"},
       v \in MoneyTexts :
        /\ v # widgets[f]
        /\ widgets' = [widgets EXCEPT ![f] = v]
        /\ team_df' = team_df
        /\ InputChanged(team_df)

\* A cell of the first row edited; the rows are costed one by one, alike.
EditCell ==
    \E i \in {1}, col \in {PRE, CON, POST, COMP} :
        /\ i <= Len(team_df)
        /\ \E v \in (IF col = COMP THEN CompCellInputs ELSE PctCellInputs) :
              /\ v # team_df[i].c[col]
              /\ team_df' = [team_df EXCEPT ![i] = WithCol(@, col, v)]
        /\ InputChanged(team_df')
        /\ UNCHANGED widgets

\* A row added in the editor: empty cells, the next index label.
AddRow ==
    /\ Len(team_df) < MaxRows
    /\ team_df' = Append(team_df,
                         MkRow(IF team_df = <<>> THEN 0 ELSE team_df[Len(team_df)].idx + 1,
                               None, None, None, None, None))
    /\ InputChanged(team_df')
    /\ UNCHANGED widgets

\* A row deleted in the editor: the other rows keep their index labels.
DeleteRow ==
    \E i \in {1, Len(team_df)} \cap (1..Len(team_df)) :
        /\ team_df' = SubSeq(team_df, 1, i - 1) \o SubSeq(team_df, i + 1, Len(team_df))
        /\ InputChanged(team_df')
        /\ UNCHANGED widgets

Next ==
    \/ RunScript
    \/ SetWeeks \/ SetBurden \/ SetOverhead \/ SetProfit \/ SetMoneyText
    \/ EditCell \/ AddRow \/ DeleteRow

Spec == Init /\ [][Next]_vars

(***************************************************************************)
(* Direct calls of the engine functions, on inputs drawn from bounded      *)
(* sets.                                                                   *)
(***************************************************************************)
Alphabet == {"0", "1", "3", ".", "-", " ", "a"}
Texts == UNION {[1..n -> Alphabet] : n \in 0..MaxStrLen}

NumberInputs ==
    {Whole(-5), Num(-1, 2), Whole(0), Num(1, 100), Num(3, 10), Num(1, 2), Whole(1),
     Num(101, 100), Num(3, 2), Whole(30), Whole(100), Whole(150)}

RawInputs == NumberInputs \cup {NaN, None} \cup {Str(t) : t \in Texts}

\* Percentages in the range 0 to 100.
PercentGrid == {Whole(0), Num(1, 2), Whole(1), Num(3, 2), Whole(30), Whole(100)}

PctCells ==
    {Whole(0), Whole(30), Whole(35), Num(35, 100), Num(3001, 10000), NaN, None,
     Str(<<"a">>), Str(<<"3", "5">>)}
CompCells == {Whole(0), Whole(100000), Str(<<"a">>)}

WideRows ==
    {MkRow(0, Txt("CM"), a, b, c, m) : a \in PctCells, b \in PctCells, c \in PctCells,
                                       m \in CompCells}

\* Rows for rosters of several rows: the cells without the index label.
NarrowRows ==
    {MkRow(0, Txt("CM"), Whole(30), Whole(30), Whole(30), Whole(100000)),
     MkRow(0, Txt("Safety"), Whole(35), Whole(35), Whole(35), Whole(50000)),
     MkRow(0, Txt("Estimator"), Num(1, 2), Num(1, 4), Num(1, 4), Whole(80000)),
     MkRow(0, None, None, None, None, None),
     MkRow(0, Txt("Site Manager"), Whole(100), Str(<<"a">>), NaN, Str(<<"3", "0">>))}

\* Index labels: increasing integers, with or without gaps (rows deleted
\* in the editor leave gaps).
LabelSeqs(n) ==
    {l \in [1..n -> 0..MaxLabel] : \A i \in 1..n, j \in 1..n : i < j => l[i] < l[j]}

Labelled(rows, l) == [i \in 1..Len(rows) |-> [idx |-> l[i], c |-> rows[i].c]]

DropSets == {{}, {ROLE}, {POST}, {COMP}, {PRE, CON, POST, COMP}}

DropCols(df, drop) ==
    [i \in 1..Len(df) |->
        [idx |-> df[i].idx, c |-> [x \in (DOMAIN df[i].c) \ drop |-> df[i].c[x]]]]

NarrowRosters ==
    UNION {{DropCols(Labelled(rows, l), drop) :
                rows \in [1..n -> NarrowRows], l \in LabelSeqs(n), drop \in DropSets} :
           n \in 0..MaxRosterLen}

Rosters == {<<r>> : r \in WideRows} \cup NarrowRosters

WeekTriples ==
    {<<Whole(0), Whole(0), Whole(0)>>, <<Whole(26), Whole(26), Whole(0)>>,
     <<Whole(52), Whole(52), Whole(52)>>}
BurdenPcts == {Whole(0), Num(15, 100)}

PayrollInputs == {Whole(0), Whole(1), Whole(34500), Whole(100000)}
FractionInputs ==
    {Num(-1, 10), Whole(0), Num(1, 20), Num(1, 10), Num(3, 10), Num(45, 100), Num(6, 10),
     Num(7, 10), Whole(1), Num(3, 2)}
ProposalInputs == {Whole(-1), Whole(0), Whole(50000), Whole(100000), Whole(150000)}
DenomInputs == {Whole(-100000), Whole(0), Num(1, 2), Whole(34500), Whole(100000)}

Calls ==
    {[fn |-> "percent_to_decimal", x |-> v] : v \in RawInputs}
    \cup {[fn |-> "validate_rows", df |-> r] : r \in Rosters}
    \cup {[fn |-> "compute_costs", df |-> r, weeks |-> w, burden_pct |-> b] :
              r \in Rosters, w \in WeekTriples, b \in BurdenPcts}
    \cup {[fn |-> "required_fee_from_overhead_profit", total_payroll_cost |-> t,
            overhead_pct |-> o, profit_pct |-> q] :
              t \in PayrollInputs, o \in FractionInputs, q \in FractionInputs}
    \cup {[fn |-> "coverage", proposal_fee |-> f, denom |-> d] :
              f \in ProposalInputs, d \in DenomInputs}
    \cup {[fn |-> "both_conventions", pre |-> a, con |-> b, post |-> c, weeks |-> w] :
              a \in PercentGrid, b \in PercentGrid, c \in PercentGrid, w \in WeekTriples}

CallsInit ==
    /\ team_df = DefaultTeam /\ widgets = DefaultWidgets
    /\ run = NoRun("pending", team_df) /\ runs = 0 /\ interactions = 0
    /\ call \in Calls /\ ret = None /\ pc = "call"

CallPercentToDecimal ==
    /\ pc = "call" /\ call.fn = "percent_to_decimal"
    /\ ret' = percent_to_decimal(call.x)
    /\ pc' = "return"
    /\ UNCHANGED <<call, session>>

CallValidateRows ==
    /\ pc = "call" /\ call.fn = "validate_rows"
    /\ ret' = validate_rows(call.df)
    /\ pc' = "return"
    /\ UNCHANGED <<call, session>>

CallComputeCosts ==
    /\ pc = "call" /\ call.fn = "compute_costs"
    /\ ret' = compute_costs(call.df, call.weeks[1], call.weeks[2], call.weeks[3],
                            call.burden_pct)
    /\ pc' = "return"
    /\ UNCHANGED <<call, session>>

CallRequiredFee ==
    /\ pc = "call" /\ call.fn = "required_fee_from_overhead_profit"
    /\ ret' = required_fee_from_overhead_profit(call.total_payroll_cost, call.overhead_pct,
                                                call.profit_pct)
    /\ pc' = "return"
    /\ UNCHANGED <<call, session>>

CallCoverage ==
    /\ pc = "call" /\ call.fn = "coverage"
    /\ ret' = coverage(call.proposal_fee, call.denom)
    /\ pc' = "return"
    /\ UNCHANGED <<call, session>>

\* The same row entered in 0-100 form and in 0-1 form (line 223).
EnteredRow(pre, con, post) == <<MkRow(0, Txt("CM"), pre, con, post, Whole(100000))>>

Hundredth(p) == Num(p.n, p.d * 100)

CallBothConventions ==
    /\ pc = "call" /\ call.fn = "both_conventions"
    /\ ret' = [percent |->
                  compute_costs(EnteredRow(call.pre, call.con, call.post),
                                call.weeks[1], call.weeks[2], call.weeks[3], Num(15, 100)),
               fraction |->
                  compute_costs(EnteredRow(Hundredth(call.pre), Hundredth(call.con),
                                           Hundredth(call.post)),
                                call.weeks[1], call.weeks[2], call.weeks[3], Num(15, 100))]
    /\ pc' = "return"
    /\ UNCHANGED <<call, session>>

CallsNext ==
    \/ CallPercentToDecimal \/ CallValidateRows \/ CallComputeCosts
    \/ CallRequiredFee \/ CallCoverage \/ CallBothConventions

SpecCalls == CallsInit /\ [][CallsNext]_vars

(***************************************************************************)
(* Properties.                                                             *)
(***************************************************************************)
Returned(fn) == pc = "return" /\ call.fn = fn

\* C1: percent_to_decimal never raises; an input that parses as a number
\* x <= 1.0 (0, exactly 1.0 and negative numbers included) is returned
\* unchanged, one that parses as a number x > 1.0 is returned as x/100, and
\* one that does not parse as a number gives 0.0.
C1_PercentToDecimal ==
    Returned("percent_to_decimal") =>
        LET v == Float(call.x)
        IN /\ ret.k # "raise"
           /\ (IsNum(v) /\ v.n <= v.d) => ret = v
           /\ (IsNum(v) /\ v.n > v.d) => (IsNum(ret) /\ ret.n * v.d * 100 = v.n * ret.d)
           /\ v.k = "raise" => ret = Whole(0)

\* The text "30" has been normalised to 0.3.
C1_Witness ==
    /\ Returned("percent_to_decimal")
    /\ call.x = Str(<<"3", "0">>)
    /\ ret = Num(3, 10)

\* 1 - overhead_pct - profit_pct, computed apart from the function.
Remainder(o, q) == Num(o.d * q.d - o.n * q.d - q.n * o.d, o.d * q.d)

\* C3: required_fee_from_overhead_profit returns None exactly when
\* 1 - overhead_pct - profit_pct <= 0 and otherwise the quotient
\* total_payroll_cost / (1 - overhead_pct - profit_pct); it never raises
\* (no division by zero) and the result is a finite number.
C3_RequiredFee ==
    Returned("required_fee_from_overhead_profit") =>
        LET rem == Remainder(call.overhead_pct, call.profit_pct)
        IN /\ ret.k \in {"none", "num"}
           /\ (ret = None) <=> (rem.n <= 0)
           /\ rem.n > 0 => FMul(ret, rem) = call.total_payroll_cost

\* required_fee(100000, 0.60, 0.45) has returned None.
C3_Witness ==
    /\ Returned("required_fee_from_overhead_profit")
    /\ call.total_payroll_cost = Whole(100000)
    /\ call.overhead_pct = Num(6, 10) /\ call.profit_pct = Num(45, 100)
    /\ ret = None

\* C4: coverage returns None exactly when denominator <= 0 and otherwise
\* proposal / denominator * 100; a proposal of 0 against a positive
\* denominator gives 0.0, which is not None; the result is >= 100 exactly
\* when proposal >= denominator.
C4_Coverage ==
    Returned("coverage") =>
        LET f == call.proposal_fee
            d == call.denom
        IN /\ (ret = None) <=> (d.n <= 0)
           /\ d.n > 0 =>
                /\ IsNum(ret)
                /\ FMul(ret, d) = FMul(f, Whole(100))
                /\ (f.n = 0 => ret = Whole(0) /\ ret # None)
                /\ (ret.n >= 100 * ret.d) <=> (f.n * d.d >= d.n * f.d)

\* coverage(0, 100000) has returned 0.0.
C4_Witness ==
    /\ Returned("coverage")
    /\ call.proposal_fee = Whole(0) /\ call.denom = Whole(100000)
    /\ ret = Whole(0)

\* C10: a fee returned for overhead_pct >= 0, profit_pct >= 0,
\* overhead_pct + profit_pct < 1 and total_payroll_cost >= 0 recovers cost:
\* fee - overhead_pct*fee - profit_pct*fee = total_payroll_cost, hence
\* fee >= total_payroll_cost, with equality exactly when
\* overhead_pct + profit_pct = 0 or total_payroll_cost = 0.
C10_FeeRecoversCost ==
    (/\ Returned("required_fee_from_overhead_profit")
     /\ call.overhead_pct.n >= 0 /\ call.profit_pct.n >= 0
     /\ Remainder(call.overhead_pct, call.profit_pct).n > 0
     /\ call.total_payroll_cost.n >= 0) =>
        LET o == call.overhead_pct
            q == call.profit_pct
            t == call.total_payroll_cost
        IN /\ IsNum(ret)
           /\ FSub(FSub(ret, FMul(o, ret)), FMul(q, ret)) = t
           /\ FGe(ret, t)
           /\ (ret = t) <=> (FAdd(o, q) = Whole(0) \/ t = Whole(0))

\* required_fee(100000, 0.10, 0.05) has returned 100000/0.85.
C10_Witness ==
    /\ Returned("required_fee_from_overhead_profit")
    /\ call.total_payroll_cost = Whole(100000)
    /\ call.overhead_pct = Num(1, 10) /\ call.profit_pct = Num(1, 20)
    /\ ret = Num(2000000, 17)

\* A number normalised as the contract states it: above 1.0 divided by 100.
Normalized(p) == IF p.n > p.d THEN Num(p.n, p.d * 100) ELSE p

OfYear(weeks) == Num(weeks.n, weeks.d * 52)

ExpectedFraction(c, weeks) ==
    FAdd(FAdd(FMul(Normalized(c[PRE]), OfYear(weeks[1])),
              FMul(Normalized(c[CON]), OfYear(weeks[2]))),
         FMul(Normalized(c[POST]), OfYear(weeks[3])))

RECURSIVE SumOfCosts(_)
SumOfCosts(out) ==
    IF out = <<>> THEN Whole(0)
    ELSE FAdd(SumOfCosts(Tail(out)), Head(out).c["Project Cost"])

\* C2: compute_costs gives each row loaded_annual = total_compensation *
\* (1 + burden_pct), project_year_fraction = pre_dec*(pre_weeks/52) +
\* con_dec*(con_weeks/52) + post_dec*(post_weeks/52) with the percentages
\* normalised once and the fraction not clamped to [0,1], project_cost =
\* loaded_annual * project_year_fraction, and total_payroll_cost = the sum of
\* project_cost over the rows, 0.0 for an empty roster.
C2_ComputeCosts ==
    Returned("compute_costs") =>
        /\ Len(ret.out) = Len(call.df)
        /\ \A i \in 1..Len(call.df) :
              LET in == call.df[i].c
                  c == ret.out[i].c
              IN /\ \A col \in {PRE, CON, POST, COMP} \cap DOMAIN in :
                       IsNum(in[col]) => c[col] = in[col]
                 /\ c["Loaded Annual"] = FMul(c[COMP], FAdd(Whole(1), call.burden_pct))
                 /\ c["Project Year Fraction"] = ExpectedFraction(c, call.weeks)
                 /\ c["Project Cost"] =
                        FMul(c["Loaded Annual"], c["Project Year Fraction"])
        /\ ret.total_payroll_cost = SumOfCosts(ret.out)
        /\ call.df = <<>> => ret.total_payroll_cost = Whole(0)

\* A roster of two rows has been costed, one of them over-allocated with a
\* year fraction above 1.
C2_Witness ==
    /\ Returned("compute_costs")
    /\ Len(ret.out) = 2
    /\ \E i \in 1..2 : FGt(ret.out[i].c["Project Year Fraction"], Whole(1))
    /\ FGt(ret.total_payroll_cost, Whole(0))

\* The positions, in roster order, of the rows whose normalised sum exceeds
\* 1.0 by more than 0.0001.
RECURSIVE FlaggedFrom(_, _)
FlaggedFrom(df, i) ==
    IF i > Len(df) THEN <<>>
    ELSE (IF FGt(RowTotal(df[i]), Num(10001, 10000)) THEN <<i>> ELSE <<>>)
         \o FlaggedFrom(df, i + 1)

\* text shows v to one decimal place.
OneDecimal(text, v) ==
    /\ Len(text) >= 3 /\ text[Len(text) - 1] = "."
    /\ LET shown == ParseFloat(text)
       IN /\ IsNum(shown)
          /\ FLe(FSub(shown, v), Num(1, 20)) /\ FLe(FSub(v, shown), Num(1, 20))

\* C5: validate_rows returns, in roster order, exactly one warning for each
\* row whose normalised pre+con+post sum exceeds 1.0 by more than 0.0001 and
\* none for any other row; each warning names its row by the row's 1-based
\* position in the roster and by its role name, and gives the sum as a
\* percentage to one decimal place.
C5_ValidateRows ==
    Returned("validate_rows") =>
        LET flagged == FlaggedFrom(call.df, 1)
        IN /\ Len(ret) = Len(flagged)
           /\ \A j \in 1..Len(flagged) :
                 LET row == call.df[flagged[j]]
                 IN /\ ret[j].row = flagged[j]
                    /\ ROLE \in DOMAIN row.c => ret[j].role = row.c[ROLE]
                    /\ OneDecimal(ret[j].pct, FMul(RowTotal(row), Whole(100)))

\* C5 with the row named by its index label + 1, as the code has it.
C5_ByIndexLabel ==
    Returned("validate_rows") =>
        LET flagged == FlaggedFrom(call.df, 1)
        IN /\ Len(ret) = Len(flagged)
           /\ \A j \in 1..Len(flagged) :
                 LET row == call.df[flagged[j]]
                 IN /\ ret[j].row = row.idx + 1
                    /\ ROLE \in DOMAIN row.c => ret[j].role = row.c[ROLE]
                    /\ OneDecimal(ret[j].pct, FMul(RowTotal(row), Whole(100)))

\* C5 for the rosters whose index labels are 0, 1, 2, ...
C5_DefaultIndex ==
    (Returned("validate_rows") /\ \A i \in 1..Len(call.df) : call.df[i].idx = i - 1)
        => C5_ValidateRows

\* A field that is not numeric: an empty cell, or text that is no number.
NonNumeric(v) ==
    \/ v.k \in {"nan", "none"}
    \/ v.k = "str" /\ ParseFloat(v.s).k = "raise"

\* The roster with every missing or non-numeric numeric field replaced by 0.0.
Zeroed(df) ==
    [i \in 1..Len(df) |->
        [idx |-> df[i].idx,
         c |-> [x \in DOMAIN df[i].c \cup {PRE, CON, POST, COMP} |->
                   IF x \in {PRE, CON, POST, COMP}
                   THEN (IF x \notin DOMAIN df[i].c \/ NonNumeric(df[i].c[x])
                         THEN Whole(0) ELSE df[i].c[x])
                   ELSE df[i].c[x]]]]

ComputedCols ==
    {PRE, CON, POST, COMP, "Pre_dec", "Con_dec", "Post_dec", "Base Annual",
     "Loaded Annual", "Project Year Fraction", "Project Cost"}

\* C6: compute_costs returns a value for every roster, whatever fields are
\* missing or non-numeric; each such field counts as 0.0: the computed rows
\* and the total are those of the roster with these fields replaced by 0.0.
C6_MissingFieldsAreZero ==
    Returned("compute_costs") =>
        LET zeroed == compute_costs(Zeroed(call.df), call.weeks[1], call.weeks[2],
                                    call.weeks[3], call.burden_pct)
        IN /\ IsNum(ret.total_payroll_cost)
           /\ \A i \in 1..Len(ret.out) : \A col \in ComputedCols : IsNum(ret.out[i].c[col])
           /\ ret.out = zeroed.out
           /\ ret.total_payroll_cost = zeroed.total_payroll_cost

\* A roster without its compensation column, and one with a cell of text
\* that is no number, have been costed.
C6_Witness ==
    /\ Returned("compute_costs")
    /\ call.df # <<>>
    /\ \/ COMP \notin DOMAIN call.df[1].c
       \/ PRE \in DOMAIN call.df[1].c /\ call.df[1].c[PRE] = Str(<<"a">>)
    /\ IsNum(ret.total_payroll_cost)
    /\ call.weeks[1] = Whole(26)

\* proposal / denominator * 100, None for a denominator <= 0 or None.
Covered(proposal, denominator) ==
    IF denominator.k # "num" \/ denominator.n <= 0 THEN None
    ELSE FMul(FDiv(proposal, denominator), Whole(100))

Proposals ==
    {<<"low_fee", "pay_cov_low", "rom_cov_low">>, <<"mid_fee", "pay_cov_mid", "rom_cov_mid">>,
     <<"high_fee", "pay_cov_high", "rom_cov_high">>}

\* C7 as stated: on every recomputation each of the three proposals is
\* evaluated against total_payroll_cost and against total_fee =
\* total_payroll_cost + overhead_dollars + profit_dollars; each of the six
\* values is None exactly when its own denominator is <= 0 and otherwise
\* proposal / denominator * 100.
C7_AgainstTotalFee ==
    run.status = "ok" =>
        /\ run.total_fee =
              FAdd(FAdd(run.total_payroll_cost, run.overhead_dollars), run.profit_dollars)
        /\ \A x \in Proposals :
              /\ run[x[2]] = Covered(run[x[1]], run.total_payroll_cost)
              /\ run[x[3]] = Covered(run[x[1]], run.total_fee)

\* C7 amended: the second denominator is rom_fee = total_payroll_cost /
\* (1 - overhead_pct - profit_pct), which is itself None when
\* 1 - overhead_pct - profit_pct <= 0; each of the six values is None
\* exactly when its own denominator is None or <= 0 and otherwise
\* proposal / denominator * 100.
C7_AgainstRomFee ==
    run.status = "ok" =>
        LET rem == Remainder(Num(widgets.overhead.n, widgets.overhead.d * 100),
                             Num(widgets.profit.n, widgets.profit.d * 100))
        IN /\ (rem.n <= 0 => run.rom_fee = None)
           /\ (rem.n > 0 => FMul(run.rom_fee, rem) = run.total_payroll_cost)
           /\ \A x \in Proposals :
                 /\ run[x[2]] = Covered(run[x[1]], run.total_payroll_cost)
                 /\ run[x[3]] = Covered(run[x[1]], run.rom_fee)
                 /\ (run[x[2]] = None) <=> (run.total_payroll_cost.n <= 0)
                 /\ (run[x[3]] = None) <=> (run.rom_fee = None \/ run.rom_fee.n <= 0)

\* A run in which rom_fee and total_fee differ and the mid proposal has a
\* coverage against each denominator.
C7_Witness ==
    /\ run.status = "ok"
    /\ IsNum(run.rom_fee) /\ run.rom_fee # run.total_fee
    /\ IsNum(run.pay_cov_mid) /\ IsNum(run.rom_cov_mid)
    /\ run.rom_cov_mid # Covered(run.mid_fee, run.total_fee)

\* C8: a recomputation on unchanged inputs gives the results of the run
\* before it, and no run changes the roster passed in.
C8_NoStateDrift ==
    [][RunScript => (team_df' = team_df /\ (run.status # "pending" => run' = run))]_vars

\* The script has run again on unchanged inputs, with a payroll cost above 0.
C8_Witness ==
    /\ runs >= 2
    /\ run.status = "ok"
    /\ FGt(run.total_payroll_cost, Whole(0))

Entered == {<<"pre", "Pre_dec">>, <<"con", "Con_dec">>, <<"post", "Post_dec">>}

SameCosts ==
    /\ ret.percent.out[1].c["Project Year Fraction"] =
          ret.fraction.out[1].c["Project Year Fraction"]
    /\ ret.percent.out[1].c["Project Cost"] = ret.fraction.out[1].c["Project Cost"]
    /\ ret.percent.total_payroll_cost = ret.fraction.total_payroll_cost

\* C9 as stated: for every percentage p from 0 to 100, p and p/100 normalise
\* to the same fraction, so a row entered in 0-100 form and the same row in
\* 0-1 form get the same project_year_fraction and project_cost.
C9_EitherConvention ==
    Returned("both_conventions") =>
        /\ \A e \in Entered : ret.percent.out[1].c[e[2]] = ret.fraction.out[1].c[e[2]]
        /\ SameCosts

\* p is 0 or above 1: read as a percentage, or the same in both forms.
ReadAsPercent(p) == p.n = 0 \/ p.n > p.d

\* C9 amended: for p = 0 and for every p with 1 < p <= 100, p and p/100
\* normalise to the same fraction, and a row whose three percentages are
\* such gets the same project_year_fraction and project_cost in either
\* form; a p with 0 < p <= 1 is read as a fraction already (1 is 100%), so p
\* normalises to p and p/100 to p/100.
C9_AboveOne ==
    Returned("both_conventions") =>
        /\ \A e \in Entered :
              LET p == call[e[1]]
              IN /\ ReadAsPercent(p) =>
                      ret.percent.out[1].c[e[2]] = ret.fraction.out[1].c[e[2]]
                 /\ ~ReadAsPercent(p) =>
                      /\ ret.percent.out[1].c[e[2]] = p
                      /\ ret.fraction.out[1].c[e[2]] = Num(p.n, p.d * 100)
        /\ (\A e \in Entered : ReadAsPercent(call[e[1]])) => SameCosts

\* 30/30/30 and 0.30/0.30/0.30 over 26, 26 and 0 weeks: the same year
\* fraction 0.30 and the same cost 34500.
C9_Witness ==
    /\ Returned("both_conventions")
    /\ call.pre = Whole(30) /\ call.con = Whole(30) /\ call.post = Whole(30)
    /\ ret.percent.out[1].c["Project Year Fraction"] = Num(3, 10)
    /\ ret.fraction.out[1].c["Project Cost"] = Whole(34500)

====
